---- MODULE Spec2Model ----
(***************************************************************************)
(* Model of validate_layout.py: validate(spec) and main().                 *)
(*                                                                         *)
(* Numbers.  The script divides Python ints with "/" (true division), so   *)
(* the safe-zone boundaries are IEEE 754 binary64 values and every later   *)
(* addition, multiplication and comparison is a binary64 operation.  A     *)
(* float is modelled exactly as a record [neg, m, e] of value              *)
(* (-1)^neg * m * 2^e where m is a natural number of at most MantBits      *)
(* bits, kept as a little-endian sequence of LimbBits-bit limbs (TLC       *)
(* integers are too narrow for a 53-bit significand).  Results are rounded *)
(* to nearest, ties to even.  Exponents stay far inside the normal range   *)
(* for the inputs used here, so overflow, underflow and subnormals do not  *)
(* occur.                                                                  *)
(***************************************************************************)
EXTENDS Integers, Sequences, FiniteSets, TLC

(***************************************************************************)
(* Natural numbers as little-endian sequences of limbs (<<>> is zero).     *)
(***************************************************************************)
MantBits == 53
LimbBits == 15
Base == 2 ^ LimbBits

\* number of fractional limbs a quotient is developed to before rounding
FracLimbs == 6

RECURSIVE NatLimbs(_)
NatLimbs(n) == IF n = 0 THEN <<>> ELSE <<n % Base>> \o NatLimbs(n \div Base)

RECURSIVE Trim(_)
Trim(a) ==
    IF a = <<>> THEN <<>>
    ELSE IF a[Len(a)] = 0 THEN Trim(SubSeq(a, 1, Len(a) - 1))
    ELSE a

LimbAt(a, k) == IF 1 <= k /\ k <= Len(a) THEN a[k] ELSE 0

\* bit length of a limb, and of a natural
SmallBitLen(x) == IF x = 0 THEN 0 ELSE CHOOSE k \in 1..LimbBits : 2 ^ (k - 1) <= x /\ x < 2 ^ k
BitLen(a) == IF a = <<>> THEN 0 ELSE LimbBits * (Len(a) - 1) + SmallBitLen(a[Len(a)])

\* a * 2^n
BShl(a, n) ==
    IF a = <<>> THEN <<>>
    ELSE LET s == 2 ^ (n % LimbBits)
             hi == [k \in 1..(Len(a) + 1) |->
                      ((LimbAt(a, k) * s) % Base) + ((LimbAt(a, k - 1) * s) \div Base)]
         IN  [k \in 1..(n \div LimbBits) |-> 0] \o Trim(hi)

\* a \div 2^n
BShr(a, n) ==
    LET d  == n \div LimbBits
        s  == 2 ^ (n % LimbBits)
        lo == [k \in 1..(Len(a) - d) |->
                 (LimbAt(a, k + d) \div s) + ((LimbAt(a, k + d + 1) % s) * (Base \div s))]
    IN  IF Len(a) <= d THEN <<>> ELSE Trim(lo)

RECURSIVE BAddC(_, _, _, _, _)
BAddC(a, b, k, c, acc) ==
    IF k > Len(a) /\ k > Len(b)
    THEN IF c = 1 THEN Append(acc, 1) ELSE acc
    ELSE LET s == LimbAt(a, k) + LimbAt(b, k) + c
         IN  BAddC(a, b, k + 1, s \div Base, Append(acc, s % Base))

BAdd(a, b) == BAddC(a, b, 1, 0, <<>>)

\* a - b for a >= b
RECURSIVE BSubC(_, _, _, _, _)
BSubC(a, b, k, c, acc) ==
    IF k > Len(a)
    THEN Trim(acc)
    ELSE LET d == LimbAt(a, k) - LimbAt(b, k) - c
         IN  BSubC(a, b, k + 1, IF d < 0 THEN 1 ELSE 0,
                   Append(acc, IF d < 0 THEN d + Base ELSE d))

BSub(a, b) == BSubC(a, b, 1, 0, <<>>)

\* -1, 0, 1 as a < b, a = b, a > b (both without leading zero limbs)
RECURSIVE BCmpAt(_, _, _)
BCmpAt(a, b, k) ==
    IF k = 0 THEN 0
    ELSE IF a[k] > b[k] THEN 1
    ELSE IF a[k] < b[k] THEN -1
    ELSE BCmpAt(a, b, k - 1)

BCmp(a, b) ==
    IF Len(a) > Len(b) THEN 1
    ELSE IF Len(a) < Len(b) THEN -1
    ELSE BCmpAt(a, b, Len(a))

\* a * d for one limb d
RECURSIVE BMulLimbC(_, _, _, _, _)
BMulLimbC(a, d, k, c, acc) ==
    IF k > Len(a)
    THEN Trim(Append(acc, c))
    ELSE LET s == a[k] * d + c
         IN  BMulLimbC(a, d, k + 1, s \div Base, Append(acc, s % Base))

RECURSIVE BMulAt(_, _, _, _)
BMulAt(a, b, k, acc) ==
    IF k > Len(b) THEN acc
    ELSE BMulAt(a, b, k + 1,
                BAdd(acc, [j \in 1..(k - 1) |-> 0] \o BMulLimbC(a, b[k], 1, 0, <<>>)))

BMul(a, b) == IF a = <<>> \/ b = <<>> THEN <<>> ELSE BMulAt(a, b, 1, <<>>)

(***************************************************************************)
(* binary64 values and the operations the script applies to them.          *)
(* Canonical form: the significand has exactly MantBits bits; zero is      *)
(* FZero.                                                                  *)
(***************************************************************************)
FZero == [neg |-> FALSE, m |-> <<>>, e |-> 0]

\* round m * 2^e (plus a nonzero tail below it when sticky) to MantBits
\* bits, to nearest, ties to even
Round(neg, m, e, sticky) ==
    LET len == BitLen(m)
    IN  IF m = <<>> THEN FZero
        ELSE IF len <= MantBits
        THEN [neg |-> neg, m |-> BShl(m, MantBits - len), e |-> e - (MantBits - len)]
        ELSE LET sh   == len - MantBits
                 q    == BShr(m, sh)
                 low  == BSub(m, BShl(q, sh))
                 c    == BCmp(low, BShl(<<1>>, sh - 1))
                 up   == c = 1 \/ (c = 0 /\ (sticky \/ (q[1] % 2) = 1))
                 r    == IF up THEN BAdd(q, <<1>>) ELSE q
             IN  IF BitLen(r) > MantBits
                 THEN [neg |-> neg, m |-> BShr(r, 1), e |-> e + sh + 1]
                 ELSE [neg |-> neg, m |-> r, e |-> e + sh]

FromInt(n) == IF n < 0 THEN Round(TRUE, NatLimbs(-n), 0, FALSE)
              ELSE Round(FALSE, NatLimbs(n), 0, FALSE)

FNeg(a) == IF a.m = <<>> THEN a ELSE [a EXCEPT !.neg = ~a.neg]

FAdd(a, b) ==
    IF a.m = <<>> THEN b
    ELSE IF b.m = <<>> THEN a
    ELSE LET e  == IF a.e < b.e THEN a.e ELSE b.e
             ma == BShl(a.m, a.e - e)
             mb == BShl(b.m, b.e - e)
             c  == BCmp(ma, mb)
         IN  IF a.neg = b.neg THEN Round(a.neg, BAdd(ma, mb), e, FALSE)
             ELSE IF c = 0 THEN FZero
             ELSE IF c = 1 THEN Round(a.neg, BSub(ma, mb), e, FALSE)
             ELSE Round(b.neg, BSub(mb, ma), e, FALSE)

FSub(a, b) == FAdd(a, FNeg(b))

FMul(a, b) ==
    IF a.m = <<>> \/ b.m = <<>> THEN FZero
    ELSE Round(a.neg # b.neg, BMul(a.m, b.m), a.e + b.e, FALSE)

\* -1, 0, 1 as a < b, a = b, a > b
FCmp(a, b) ==
    LET mag == IF a.e > b.e THEN 1
               ELSE IF a.e < b.e THEN -1
               ELSE BCmp(a.m, b.m)
    IN  IF a.m = <<>> /\ b.m = <<>> THEN 0
        ELSE IF a.m = <<>> THEN IF b.neg THEN 1 ELSE -1
        ELSE IF b.m = <<>> THEN IF a.neg THEN -1 ELSE 1
        ELSE IF a.neg /\ ~b.neg THEN -1
        ELSE IF ~a.neg /\ b.neg THEN 1
        ELSE IF a.neg THEN -mag ELSE mag

FLt(a, b) == FCmp(a, b) = -1
FGt(a, b) == FCmp(a, b) = 1
FLe(a, b) == FCmp(a, b) <= 0
FGe(a, b) == FCmp(a, b) >= 0

\* long division of the remainder r by q in base Base: n more limbs of the
\* quotient, least significant first
RECURSIVE LongDiv(_, _, _, _)
LongDiv(r, q, n, limbs) ==
    IF n = 0
    THEN [m |-> Trim(limbs), sticky |-> r # 0]
    ELSE LongDiv((r * Base) % q, q, n - 1, <<(r * Base) \div q>> \o limbs)

\* Python int / int for q # 0 (|q| < 2^16): the correctly rounded quotient
IntDiv(p, q) ==
    LET ap == IF p < 0 THEN -p ELSE p
        aq == IF q < 0 THEN -q ELSE q
        d  == LongDiv(ap % aq, aq, FracLimbs, NatLimbs(ap \div aq))
    IN  Round((p < 0) # (q < 0), d.m, -(LimbBits * FracLimbs), d.sticky)

(***************************************************************************)
(* The script's constants.                                                 *)
(***************************************************************************)
PLATFORMS ==
    [f \in {"4x5", "9x16", "1:1"} |->
        IF f = "4x5"
        THEN [widthPx |-> 1440, heightPx |-> 1800, topPx |-> 180,
              bottomPx |-> 180, leftPx |-> 80, rightPx |-> 80]
        ELSE IF f = "9x16"
        THEN [widthPx |-> 1440, heightPx |-> 2560, topPx |-> 240,
              bottomPx |-> 492, leftPx |-> 80, rightPx |-> 80]
        ELSE [widthPx |-> 1080, heightPx |-> 1080, topPx |-> 80,
              bottomPx |-> 80, leftPx |-> 80, rightPx |-> 80]]

CTA_MIN_H == 44
CTA_MIN_W == 120

\* the literal 0.65: the double nearest to 65/100
LEGAL_MIN_SCALE == IntDiv(65, 100)

(***************************************************************************)
(* Parsed JSON.  An object is a record whose fields are options: <<>> for  *)
(* a key the object does not have, <<v>> for a key with value v.           *)
(***************************************************************************)
Absent == <<>>
Some(v) == <<v>>

\* dict.get(key, default)
Get(o, default) == IF o = Absent THEN default ELSE o[1]

\* a JSON number written as the decimal fraction p/q: the nearest double
Dec(p, q) == IntDiv(p, q)

(***************************************************************************)
(* validate(spec): the pieces of its body.                                 *)
(***************************************************************************)
\* variant: spec.get("formatId", "4x5"), which keeps an empty string
ResolveFidGetDefault(s) == IF s.formatId = Absent THEN "4x5" ELSE s.formatId[1]

\* fid = spec.get("formatId") or "4x5": an absent key and a falsy value
\* (the empty string) both give "4x5"
ResolveFid(s) ==
    IF s.formatId = Absent \/ s.formatId[1] = "" THEN "4x5" ELSE s.formatId[1]

\* plat = PLATFORMS.get(fid, PLATFORMS["1:1"])
ResolvePlat(f) == IF f \in DOMAIN PLATFORMS THEN PLATFORMS[f] ELSE PLATFORMS["1:1"]

\* w, h = spec.get("widthPx", plat["widthPx"]), spec.get("heightPx", plat["heightPx"])
EffW(s, p) == Get(s.widthPx, p.widthPx)
EffH(s, p) == Get(s.heightPx, p.heightPx)

\* variant: the top inset over the profile's reference height
TopNReference(p, hh) == IntDiv(p.topPx, p.heightPx)

\* the four boundaries, for nonzero ww, hh
TopN(p, hh) == IntDiv(p.topPx, hh)
BottomN(p, hh) == FSub(FromInt(1), IntDiv(p.bottomPx, hh))
LeftN(p, ww) == IntDiv(p.leftPx, ww)
RightN(p, ww) == FSub(FromInt(1), IntDiv(p.rightPx, ww))

\* spec.get("textBlocks", [])
Blocks(s) == Get(s.textBlocks, <<>>)

\* bid, and the bbox fields with their defaults
Bid(b) == Get(b.id, "?")
NoBBox == [x |-> Absent, y |-> Absent, width |-> Absent, height |-> Absent]
BBoxOf(b) == Get(b.bbox, NoBBox)
BoxX(b) == Get(BBoxOf(b).x, FZero)
BoxY(b) == Get(BBoxOf(b).y, FZero)
BoxW(b) == Get(BBoxOf(b).width, FZero)
BoxH(b) == Get(BBoxOf(b).height, FZero)

\* variant: y <= top_n
TopFailsInclusive(y, t) == FLe(y, t)

\* the conditions of the six checks
TopFails(y, t) == FLt(y, t)
BottomFails(y, bh, bot) == FGt(FAdd(y, bh), bot)
LeftFails(x, l) == FLt(x, l)
RightFails(x, bw, r) == FGt(FAdd(x, bw), r)
IsCta(b) == b.role = Some("cta")

\* variant: "and" for "or"
CtaFailsBoth(bw, bh, ww, hh) ==
    LET pw == FMul(bw, FromInt(ww))
        ph == FMul(bh, FromInt(hh))
    IN  FLt(ph, FromInt(44)) /\ FLt(pw, FromInt(120))

CtaFails(bw, bh, ww, hh) ==
    LET pw == FMul(bw, FromInt(ww))
        ph == FMul(bh, FromInt(hh))
    IN  FLt(ph, FromInt(CTA_MIN_H)) \/ FLt(pw, FromInt(CTA_MIN_W))

\* variant: the legal check also runs for a CTA
IsLegalOrCta(b) == b.role \in {Some("legal"), Some("cta")}

IsLegal(b) == b.role = Some("legal")

\* variant: scale <= LEGAL_MIN_SCALE
LegalFailsInclusive(b) == FLe(Get(b.scale, FromInt(1)), IntDiv(65, 100))

LegalFails(b) == FLt(Get(b.scale, FromInt(1)), LEGAL_MIN_SCALE)

\* the messages: f"{bid}: ..." as the tuple of its parts
TopMsg(bid) == <<bid, ": extends into top safe zone">>
BottomMsg(bid) == <<bid, ": extends into bottom safe zone">>
LeftMsg(bid) == <<bid, ": extends into left safe zone">>
RightMsg(bid) == <<bid, ": extends into right safe zone">>
CtaMsg(bid) == <<bid, ": CTA below min size ", CTA_MIN_W, "x", CTA_MIN_H, "px">>
LegalMsg(bid) == <<bid, ": legal text scale below minimum">>

\* violations.append(m) when cond holds
AppendIf(v, cond, m) == IF cond THEN Append(v, m) ELSE v

\* variant: the bottom check before the top check
CheckOneBottomFirst(v, b, t, bot, l, r, ww, hh) ==
    LET bid == Bid(b)
        v1 == AppendIf(v, BottomFails(BoxY(b), BoxH(b), bot), BottomMsg(bid))
        v2 == AppendIf(v1, TopFails(BoxY(b), t), TopMsg(bid))
        v3 == AppendIf(v2, LeftFails(BoxX(b), l), LeftMsg(bid))
        v4 == AppendIf(v3, RightFails(BoxX(b), BoxW(b), r), RightMsg(bid))
        v5 == AppendIf(v4, IsCta(b) /\ CtaFails(BoxW(b), BoxH(b), ww, hh), CtaMsg(bid))
        v6 == AppendIf(v5, IsLegal(b) /\ LegalFails(b), LegalMsg(bid))
    IN  v6

\* one iteration of the loop over the blocks: v after the six checks of b
\* against the boundaries t, bot, l, r and the canvas ww x hh
CheckOne(v, b, t, bot, l, r, ww, hh) ==
    LET bid == Bid(b)
        v1 == AppendIf(v, TopFails(BoxY(b), t), TopMsg(bid))
        v2 == AppendIf(v1, BottomFails(BoxY(b), BoxH(b), bot), BottomMsg(bid))
        v3 == AppendIf(v2, LeftFails(BoxX(b), l), LeftMsg(bid))
        v4 == AppendIf(v3, RightFails(BoxX(b), BoxW(b), r), RightMsg(bid))
        v5 == AppendIf(v4, IsCta(b) /\ CtaFails(BoxW(b), BoxH(b), ww, hh), CtaMsg(bid))
        v6 == AppendIf(v5, IsLegal(b) /\ LegalFails(b), LegalMsg(bid))
    IN  v6

(***************************************************************************)
(* The documents main() is run on.                                         *)
(***************************************************************************)
MaxBlocks == 2

FormatIds == {Absent, Some("4x5"), Some("9x16"), Some("1:1"), Some(""), Some("16x9")}
WidthOverrides == {Absent, Some(0), Some(1080)}
HeightOverrides == {Absent, Some(0), Some(2160)}

Block(id, bbox, role, scale) == [id |-> id, bbox |-> bbox, role |-> role, scale |-> scale]
BBox(x, y, width, height) == [x |-> x, y |-> y, width |-> width, height |-> height]

\* the text blocks tried with a document head hd (formatId, widthPx,
\* heightPx): blocks on and off the boundaries that hd resolves to
InputBlocks(hd) ==
    LET p   == ResolvePlat(ResolveFid(hd))
        ww  == IF EffW(hd, p) = 0 THEN p.widthPx ELSE EffW(hd, p)
        hh  == IF EffH(hd, p) = 0 THEN p.heightPx ELSE EffH(hd, p)
        t   == TopN(p, hh)
        bot == BottomN(p, hh)
        l   == LeftN(p, ww)
        r   == RightN(p, ww)
    IN  { Block(Absent, Absent, Absent, Absent),
          Block(Some("a"), Some(BBox(Some(l), Some(t), Some(FSub(r, l)), Some(FSub(bot, t)))),
                Absent, Absent),
          Block(Some("cta1"),
                Some(BBox(Some(Dec(2, 10)), Some(Dec(5, 10)), Some(Dec(5, 100)), Some(Dec(1, 100)))),
                Some("cta"), Some(Dec(5, 10))),
          Block(Some("cta2"),
                Some(BBox(Some(Dec(2, 10)), Some(Dec(5, 10)),
                          Some(IntDiv(CTA_MIN_W, ww)), Some(IntDiv(CTA_MIN_H, hh)))),
                Some("cta"), Absent),
          Block(Some("a"),
                Some(BBox(Some(Dec(2, 10)), Some(Dec(5, 10)), Absent, Some(Dec(2, 10)))),
                Some("cta"), Absent),
          Block(Some("legal1"),
                Some(BBox(Some(FZero), Some(FZero), Some(FromInt(1)), Some(FromInt(1)))),
                Some("legal"), Some(Dec(5, 10))),
          Block(Some("legal2"),
                Some(BBox(Some(Dec(1, 10)), Some(Dec(3, 10)), Some(Dec(3, 10)), Some(Dec(5, 100)))),
                Some("legal"), Some(Dec(65, 100))),
          Block(Some("legal1"), Absent, Some("legal"), Absent),
          Block(Some("cta1"),
                Some(BBox(Some(Dec(2, 10)), Some(Dec(5, 10)), Some(Dec(5, 10)), Some(Dec(1, 100)))),
                Some("cta"), Absent),
          Block(Some("b"),
                Some(BBox(Some(Dec(6, 100)), Some(Dec(9, 100)), Some(Dec(1, 10)), Some(Dec(7, 10)))),
                Some("body"), Some(Dec(5, 10))) }

SeqsUpTo(S, n) == UNION {[1..k -> S] : k \in 0..n}

(***************************************************************************)
(* State: the parsed document, main's and validate's position, validate's  *)
(* locals, the pending exception, the error stream and the exit status.    *)
(***************************************************************************)
VARIABLES spec, pc, exc, fid, plat, w, h, top_n, bottom_n, left_n, right_n,
          i, violations, stderr, exitStatus

vars == <<spec, pc, exc, fid, plat, w, h, top_n, bottom_n, left_n, right_n,
          i, violations, stderr, exitStatus>>

\* a local that is not bound yet
Unset == <<>>

\* exitStatus while the process runs
Running == -1

Init ==
    /\ \E f \in FormatIds, wo \in WidthOverrides, ho \in HeightOverrides :
         LET hd == [formatId |-> f, widthPx |-> wo, heightPx |-> ho]
         IN  \E tb \in {Absent} \cup {Some(bs) : bs \in SeqsUpTo(InputBlocks(hd), MaxBlocks)} :
               spec = [formatId |-> f, widthPx |-> wo, heightPx |-> ho, textBlocks |-> tb]
    /\ pc = "validate"
    /\ exc = ""
    /\ fid = Unset /\ plat = Unset /\ w = Unset /\ h = Unset
    /\ top_n = Unset /\ bottom_n = Unset /\ left_n = Unset /\ right_n = Unset
    /\ i = 0
    /\ violations = Unset
    /\ stderr = <<>>
    /\ exitStatus = Running

\* validate, lines 20-27: the profile, the canvas and the boundaries; a
\* zero height or width raises ZeroDivisionError at the first division by it
Resolve ==
    /\ pc = "validate"
    /\ LET f  == ResolveFid(spec)
           p  == ResolvePlat(f)
           ww == EffW(spec, p)
           hh == EffH(spec, p)
       IN  /\ violations' = <<>>
           /\ fid' = f /\ plat' = p /\ w' = ww /\ h' = hh
           /\ IF hh = 0
              THEN /\ exc' = "ZeroDivisionError" /\ pc' = "raised"
                   /\ UNCHANGED <<top_n, bottom_n, left_n, right_n, i>>
              ELSE IF ww = 0
              THEN /\ top_n' = TopN(p, hh) /\ bottom_n' = BottomN(p, hh)
                   /\ exc' = "ZeroDivisionError" /\ pc' = "raised"
                   /\ UNCHANGED <<left_n, right_n, i>>
              ELSE /\ top_n' = TopN(p, hh) /\ bottom_n' = BottomN(p, hh)
                   /\ left_n' = LeftN(p, ww) /\ right_n' = RightN(p, ww)
                   /\ i' = 1 /\ pc' = "loop"
                   /\ exc' = exc
    /\ UNCHANGED <<spec, stderr, exitStatus>>

\* validate, lines 29-52: the checks of the next block
CheckBlock ==
    /\ pc = "loop"
    /\ i <= Len(Blocks(spec))
    /\ violations' = CheckOne(violations, Blocks(spec)[i],
                              top_n, bottom_n, left_n, right_n, w, h)
    /\ i' = i + 1
    /\ UNCHANGED <<spec, pc, exc, fid, plat, w, h, top_n, bottom_n, left_n,
                   right_n, stderr, exitStatus>>

\* validate, line 54, and main, line 63: the list is returned to main
Return ==
    /\ pc = "loop"
    /\ i > Len(Blocks(spec))
    /\ pc' = "returned"
    /\ UNCHANGED <<spec, exc, fid, plat, w, h, top_n, bottom_n, left_n,
                   right_n, i, violations, stderr, exitStatus>>

\* main, lines 64-65: the next violation goes to the error stream
PrintViolation ==
    /\ pc = "returned"
    /\ Len(stderr) < Len(violations)
    /\ stderr' = Append(stderr, violations[Len(stderr) + 1])
    /\ UNCHANGED <<spec, pc, exc, fid, plat, w, h, top_n, bottom_n, left_n,
                   right_n, i, violations, exitStatus>>

\* main, line 66: sys.exit(0 if not violations else 1)
Exit ==
    /\ pc = "returned"
    /\ Len(stderr) = Len(violations)
    /\ exitStatus' = IF violations = <<>> THEN 0 ELSE 1
    /\ pc' = "exited"
    /\ UNCHANGED <<spec, exc, fid, plat, w, h, top_n, bottom_n, left_n,
                   right_n, i, violations, stderr>>

\* the exception leaves validate and main uncaught: the interpreter prints
\* the traceback and the process ends with status 1
Uncaught ==
    /\ pc = "raised"
    /\ stderr' = Append(stderr, <<"Traceback", ": ", exc>>)
    /\ exitStatus' = 1
    /\ pc' = "exited"
    /\ UNCHANGED <<spec, exc, fid, plat, w, h, top_n, bottom_n, left_n,
                   right_n, i, violations>>

Next == Resolve \/ CheckBlock \/ Return \/ PrintViolation \/ Exit \/ Uncaught

Spec == Init /\ [][Next]_vars

(***************************************************************************)
(* Vocabulary of the properties.                                           *)
(***************************************************************************)
\* the step is one iteration of the loop, over the block Cur
Stepped == pc = "loop" /\ pc' = "loop" /\ i' = i + 1
Cur == Blocks(spec)[i]

\* the messages the step appended
NewMsgs == SubSeq(violations', Len(violations) + 1, Len(violations'))

Has(ms, m) == \E k \in 1..Len(ms) : ms[k] = m
Count(ms, m) == Cardinality({k \in 1..Len(ms) : ms[k] = m})

GeomTexts == {": extends into top safe zone", ": extends into bottom safe zone",
              ": extends into left safe zone", ": extends into right safe zone"}
GeomFree(ms) == \A k \in 1..Len(ms) : ms[k][2] \notin GeomTexts

\* the profile and the canvas the document calls for
SpecPlat ==
    IF spec.formatId = Absent \/ spec.formatId = Some("") THEN PLATFORMS["4x5"]
    ELSE IF spec.formatId[1] \in {"4x5", "9x16", "1:1"} THEN PLATFORMS[spec.formatId[1]]
    ELSE PLATFORMS["1:1"]
SpecW == IF spec.widthPx = Absent THEN SpecPlat.widthPx ELSE spec.widthPx[1]
SpecH == IF spec.heightPx = Absent THEN SpecPlat.heightPx ELSE spec.heightPx[1]

\* the bbox lies within the boundaries, each comparison evaluated in binary64
InZone(b) ==
    /\ FGe(BoxY(b), top_n)
    /\ FLe(FAdd(BoxY(b), BoxH(b)), bottom_n)
    /\ FGe(BoxX(b), left_n)
    /\ FLe(FAdd(BoxX(b), BoxW(b)), right_n)

\* the bbox is exactly {x: left_n, y: top_n, width: right_n - left_n,
\* height: bottom_n - top_n}
IsExact(b) ==
    b.bbox = Some(BBox(Some(left_n), Some(top_n),
                       Some(FSub(right_n, left_n)), Some(FSub(bottom_n, top_n))))

\* the canvas is the profile's reference canvas
AtReference == w = plat.widthPx /\ h = plat.heightPx

(***************************************************************************)
(* C1.  validate is total: it never raises, whatever fields are present    *)
(* and whatever numbers widthPx and heightPx hold.                         *)
(***************************************************************************)
C1_NeverRaises == exc = ""

(***************************************************************************)
(* C2.  Profile resolution: formatId absent gives "4x5", a table key gives *)
(* its profile, and every other formatId that is present gives "1:1".      *)
(***************************************************************************)
C2_PresentUnknownIsSquare ==
    pc # "validate" =>
        /\ spec.formatId = Absent => plat = PLATFORMS["4x5"]
        /\ spec.formatId # Absent /\ spec.formatId[1] \in {"4x5", "9x16", "1:1"}
               => plat = PLATFORMS[spec.formatId[1]]
        /\ spec.formatId # Absent /\ spec.formatId[1] \notin {"4x5", "9x16", "1:1"}
               => plat = PLATFORMS["1:1"]

\* C2 as amended: a formatId that is absent or the empty string gives
\* "4x5", a table key gives its profile, and every other (non-empty)
\* formatId that is present gives "1:1"
C2_ProfileResolution ==
    pc # "validate" =>
        /\ spec.formatId = Absent \/ spec.formatId = Some("") => plat = PLATFORMS["4x5"]
        /\ spec.formatId # Absent /\ spec.formatId[1] \in {"4x5", "9x16", "1:1"}
               => plat = PLATFORMS[spec.formatId[1]]
        /\ spec.formatId # Absent /\ spec.formatId[1] \notin {"", "4x5", "9x16", "1:1"}
               => plat = PLATFORMS["1:1"]

C2_Witness ==
    /\ pc = "loop"
    /\ spec.formatId = Some("16x9")
    /\ plat = PLATFORMS["1:1"]
    /\ plat # PLATFORMS["4x5"]

(***************************************************************************)
(* C3.  When main exits, the status is 0 exactly when validate returned an *)
(* empty list and 1 exactly when it returned one or more violations.       *)
(***************************************************************************)
C3_ExitStatus ==
    pc = "exited" =>
        /\ exitStatus \in {0, 1}
        /\ exitStatus = 0 <=> (exc = "" /\ violations = <<>>)
        /\ exitStatus = 1 <=> (exc = "" /\ violations # <<>>)

(***************************************************************************)
(* C4.  At every canvas size, a block whose bbox lies within the           *)
(* boundaries, and in particular the bbox lying exactly on them, gets none *)
(* of the four geometric messages, wherever it is in the list.             *)
(***************************************************************************)
C4_ExactBoxAnyCanvas ==
    [][Stepped /\ (InZone(Cur) \/ IsExact(Cur)) => GeomFree(NewMsgs)]_vars

\* C4 as amended: a block whose bbox satisfies the four comparisons as
\* binary64 evaluates them gets none of the four geometric messages,
\* wherever it is in the list; the bbox exactly on the boundaries is such a
\* block when the canvas is the profile's reference canvas
C4_InZoneNoGeometric ==
    [][Stepped =>
          /\ InZone(Cur) => GeomFree(NewMsgs)
          /\ IsExact(Cur) /\ AtReference => InZone(Cur) /\ GeomFree(NewMsgs)]_vars

C4_Witness ==
    /\ pc = "loop" /\ i = 3
    /\ AtReference
    /\ IsExact(Blocks(spec)[2])
    /\ InZone(Blocks(spec)[2])
    /\ violations # <<>>
    /\ violations = CheckOne(<<>>, Blocks(spec)[1], top_n, bottom_n, left_n, right_n, w, h)

(***************************************************************************)
(* C5.  The returned list is the concatenation, in block order, of each    *)
(* block's own messages; a block's messages carry its id ("?" when it has  *)
(* none), one per failing check, in the order top, bottom, left, right,    *)
(* CTA, legal.                                                             *)
(***************************************************************************)
\* the messages of block b, by selection from the six in their fixed order
OwnMsgs(b) ==
    LET bid == IF b.id = Absent THEN "?" ELSE b.id[1]
        six == << <<FLt(BoxY(b), top_n), <<bid, ": extends into top safe zone">> >>,
                  <<FGt(FAdd(BoxY(b), BoxH(b)), bottom_n), <<bid, ": extends into bottom safe zone">> >>,
                  <<FLt(BoxX(b), left_n), <<bid, ": extends into left safe zone">> >>,
                  <<FGt(FAdd(BoxX(b), BoxW(b)), right_n), <<bid, ": extends into right safe zone">> >>,
                  <<b.role = Some("cta") /\ CtaFails(BoxW(b), BoxH(b), w, h),
                    <<bid, ": CTA below min size ", 120, "x", 44, "px">> >>,
                  <<b.role = Some("legal") /\ LegalFails(b),
                    <<bid, ": legal text scale below minimum">> >> >>
        failing == SelectSeq(six, LAMBDA c : c[1])
    IN  [k \in 1..Len(failing) |-> failing[k][2]]

RECURSIVE Concat(_, _)
Concat(bs, n) == IF n = 0 THEN <<>> ELSE Concat(bs, n - 1) \o OwnMsgs(bs[n])

\* (the list is compared when validate hands it to main, before main prints)
C5_ConcatenationInOrder ==
    /\ pc = "loop" => violations = Concat(Blocks(spec), i - 1)
    /\ pc = "returned" /\ stderr = <<>>
          => violations = Concat(Blocks(spec), Len(Blocks(spec)))

C5_Witness ==
    /\ pc = "returned" /\ stderr = <<>>
    /\ Len(Blocks(spec)) = 2
    /\ Blocks(spec)[1].id = Some("legal1")
    /\ Blocks(spec)[2].id = Absent
    /\ Len(OwnMsgs(Blocks(spec)[1])) = 5
    /\ Len(violations) = 7
    /\ violations[6] = <<"?", ": extends into top safe zone">>
    /\ violations[7] = <<"?", ": extends into left safe zone">>

(***************************************************************************)
(* C6.  A document without text blocks (the list empty or absent) makes    *)
(* validate return the empty list, whatever formatId, widthPx and heightPx *)
(* it has.                                                                 *)
(***************************************************************************)
C6_NoBlocksEmptyList ==
    Blocks(spec) = <<>> /\ pc \in {"raised", "returned", "exited"}
        => exc = "" /\ violations = <<>>

(***************************************************************************)
(* C7.  A block gets the message "<id>: CTA below min size 120x44px"       *)
(* exactly when its role is "cta" and bbox.height * h < 44 or              *)
(* bbox.width * w < 120, with w and h the canvas the document calls for;   *)
(* it gets it once, and a CTA of exactly 120x44 px does not get it.        *)
(***************************************************************************)
C7_CtaRule ==
    [][Stepped =>
          LET b   == Cur
              m   == <<Get(b.id, "?"), ": CTA below min size ", 120, "x", 44, "px">>
              pw  == FMul(BoxW(b), FromInt(SpecW))
              ph  == FMul(BoxH(b), FromInt(SpecH))
          IN  /\ Has(NewMsgs, m) <=>
                    (b.role = Some("cta") /\ (FLt(ph, FromInt(44)) \/ FLt(pw, FromInt(120))))
              /\ Count(NewMsgs, m) <= 1
              /\ \A k \in 1..Len(NewMsgs) : NewMsgs[k][2] = ": CTA below min size " => NewMsgs[k] = m
              /\ b.role = Some("cta") /\ pw = FromInt(120) /\ ph = FromInt(44)
                    => ~Has(NewMsgs, m)]_vars

\* a CTA below both minimums has been checked and got the message once; a
\* CTA of exactly 120x44 px follows it
C7_Witness ==
    /\ pc = "loop" /\ i = 2 /\ Len(Blocks(spec)) = 2
    /\ Blocks(spec)[1].role = Some("cta")
    /\ FLt(FMul(BoxW(Blocks(spec)[1]), FromInt(SpecW)), FromInt(120))
    /\ FLt(FMul(BoxH(Blocks(spec)[1]), FromInt(SpecH)), FromInt(44))
    /\ Count(violations, <<"cta1", ": CTA below min size ", 120, "x", 44, "px">>) = 1
    /\ Blocks(spec)[2].role = Some("cta")
    /\ FMul(BoxW(Blocks(spec)[2]), FromInt(SpecW)) = FromInt(120)
    /\ FMul(BoxH(Blocks(spec)[2]), FromInt(SpecH)) = FromInt(44)
    /\ spec.widthPx # Absent

(***************************************************************************)
(* C8.  A block gets the message "<id>: legal text scale below minimum"    *)
(* exactly when its role is "legal" and its scale (1 when absent) is below *)
(* 0.65; a scale of exactly 0.65 does not get it, and the scale of a block *)
(* of any other role, or of none, changes nothing.                         *)
(***************************************************************************)
C8_LegalRule ==
    [][Stepped =>
          LET b    == Cur
              m    == <<Get(b.id, "?"), ": legal text scale below minimum">>
              sc   == IF b.scale = Absent THEN FromInt(1) ELSE b.scale[1]
          IN  /\ Has(NewMsgs, m) <=> (b.role = Some("legal") /\ FLt(sc, Dec(65, 100)))
              /\ b.role = Some("legal") /\ sc = Dec(65, 100) => ~Has(NewMsgs, m)
              /\ b.role # Some("legal")
                    => violations' = CheckOne(violations, [b EXCEPT !.scale = Absent],
                                              top_n, bottom_n, left_n, right_n, w, h)]_vars

\* a legal block at scale 0.5 got the message, the next one at exactly 0.65
\* did not
C8_Witness ==
    /\ pc = "loop" /\ i = 3
    /\ Blocks(spec)[1].role = Some("legal") /\ Blocks(spec)[1].scale = Some(Dec(5, 10))
    /\ Has(violations, <<"legal1", ": legal text scale below minimum">>)
    /\ Blocks(spec)[2].role = Some("legal") /\ Blocks(spec)[2].scale = Some(Dec(65, 100))
    /\ ~Has(violations, <<"legal2", ": legal text scale below minimum">>)

(***************************************************************************)
(* C9.  The boundaries are the profile's insets over the canvas the        *)
(* document calls for (its widthPx, heightPx when present), not over the   *)
(* profile's reference canvas; an override can so change the geometric     *)
(* violations of a block.                                                  *)
(***************************************************************************)
C9_BoundariesFromCanvas ==
    pc = "loop" \/ (pc = "returned" /\ stderr = <<>>) =>
        /\ top_n = IntDiv(SpecPlat.topPx, SpecH)
        /\ bottom_n = FSub(FromInt(1), IntDiv(SpecPlat.bottomPx, SpecH))
        /\ left_n = IntDiv(SpecPlat.leftPx, SpecW)
        /\ right_n = FSub(FromInt(1), IntDiv(SpecPlat.rightPx, SpecW))

\* with heightPx overridden, the one block gets geometric messages other
\* than those the reference canvas of the same profile gives it
C9_Witness ==
    /\ pc = "returned" /\ stderr = <<>>
    /\ spec.heightPx # Absent /\ spec.widthPx = Absent
    /\ Len(Blocks(spec)) = 1
    /\ top_n # IntDiv(SpecPlat.topPx, SpecPlat.heightPx)
    /\ violations # CheckOne(<<>>, Blocks(spec)[1],
                             IntDiv(SpecPlat.topPx, SpecPlat.heightPx),
                             FSub(FromInt(1), IntDiv(SpecPlat.bottomPx, SpecPlat.heightPx)),
                             left_n, right_n, w, SpecPlat.heightPx)
    /\ Blocks(spec)[1].role = Some("body")

(***************************************************************************)
(* C10.  No block gets both the CTA and the legal message: a block gets at *)
(* most 5 messages, at most 4 when its role is absent or unrecognized, and *)
(* the list is at most 5 times as long as the number of blocks.            *)
(***************************************************************************)
C10_AtMostFive ==
    [][Stepped =>
          LET b == Cur
          IN  /\ ~ (Has(NewMsgs, CtaMsg(Bid(b))) /\ Has(NewMsgs, LegalMsg(Bid(b))))
              /\ Len(NewMsgs) <= 5
              /\ b.role \notin {Some("cta"), Some("legal")} => Len(NewMsgs) <= 4
              /\ Len(violations') <= 5 * i
              /\ Len(violations') <= 5 * Len(Blocks(spec))]_vars

\* two blocks with five messages each have been checked
C10_Witness ==
    /\ pc = "returned"
    /\ Len(Blocks(spec)) = 2
    /\ Len(violations) = 10

====
